---------------------------- MODULE Spec2Model ----------------------------
(***************************************************************************)
(* Model of the backtesting engine (backtesting/backtester.py) and of the  *)
(* allocation policies it drives (strategies/*.py).                        *)
(*                                                                         *)
(* Dollar amounts, prices, returns and weights are exact rationals         *)
(* [n |-> numerator, d |-> denominator].  A denominator of 0 encodes the   *)
(* non-finite floating point values: NaN, +Inf, -Inf, and HugeNeg, the     *)
(* value numpy produces on x86 when NaN is cast to a 64 bit integer        *)
(* (-2^63, which is far outside the range of the model's arithmetic).      *)
(*                                                                         *)
(* Rows of the price table are numbered as pandas .iloc numbers them,      *)
(* from 0; the date of a price row is modelled by its row number.          *)
(***************************************************************************)
EXTENDS Integers, Sequences, FiniteSets, TLC

(***************************************************************************)
(* Bounds of the model.                                                    *)
(***************************************************************************)
MaxRows == 4
MaxWindow == 3
MaxRuns == 2

(***************************************************************************)
(* Exact arithmetic.                                                       *)
(***************************************************************************)
Abs(i) == IF i < 0 THEN -i ELSE i

RECURSIVE GCD(_, _)
GCD(a, b) == IF b = 0 THEN a ELSE GCD(b, a % b)

Norm(num, den) ==
    LET g == GCD(Abs(num), Abs(den))
        s == IF den < 0 THEN -1 ELSE 1
    IN  [n |-> (s * num) \div g, d |-> (s * den) \div g]

RInt(i) == [n |-> i, d |-> 1]
Zero == RInt(0)
NaN == [n |-> 0, d |-> 0]
PosInf == [n |-> 1, d |-> 0]
NegInf == [n |-> -1, d |-> 0]
HugeNeg == [n |-> -2, d |-> 0]

IsFinite(x) == x.d > 0
IsNaN(x) == x = NaN

\* sign of a value; NaN has none (0)
Sign(x) == IF x.n > 0 THEN 1 ELSE IF x.n < 0 THEN -1 ELSE 0

RNeg(x) ==
    IF IsFinite(x) THEN [n |-> -x.n, d |-> x.d]
    ELSE IF x = NaN THEN NaN
    ELSE IF x = PosInf THEN NegInf
    ELSE PosInf

RAdd(x, y) ==
    IF IsFinite(x) /\ IsFinite(y) THEN
        LET g == GCD(x.d, y.d)
        IN  Norm(x.n * (y.d \div g) + y.n * (x.d \div g), (x.d \div g) * y.d)
    ELSE IF x = NaN \/ y = NaN THEN NaN
    ELSE IF IsFinite(x) THEN y
    ELSE IF IsFinite(y) THEN x
    ELSE IF Sign(x) = Sign(y) THEN (IF x = HugeNeg THEN y ELSE x)
    ELSE NaN

RSub(x, y) == RAdd(x, RNeg(y))

RMul(x, y) ==
    IF IsFinite(x) /\ IsFinite(y) THEN
        LET g1 == GCD(Abs(x.n), y.d)
            g2 == GCD(Abs(y.n), x.d)
        IN  Norm((x.n \div g1) * (y.n \div g2), (x.d \div g2) * (y.d \div g1))
    ELSE IF x = NaN \/ y = NaN THEN NaN
    ELSE IF Sign(x) = 0 \/ Sign(y) = 0 THEN NaN
    ELSE IF x = HugeNeg /\ IsFinite(y) /\ Sign(y) > 0 THEN HugeNeg
    ELSE IF y = HugeNeg /\ IsFinite(x) /\ Sign(x) > 0 THEN HugeNeg
    ELSE IF Sign(x) = Sign(y) THEN PosInf
    ELSE NegInf

\* IEEE division: x/0 is +-Inf, 0/0 is NaN
RDiv(x, y) ==
    IF IsFinite(x) /\ IsFinite(y) THEN
        IF y.n # 0 THEN RMul(x, Norm(y.d, y.n))
        ELSE IF x.n = 0 THEN NaN
        ELSE IF x.n > 0 THEN PosInf ELSE NegInf
    ELSE IF x = NaN \/ y = NaN THEN NaN
    ELSE IF IsFinite(x) THEN Zero
    ELSE IF ~IsFinite(y) THEN NaN
    ELSE IF Sign(y) >= 0 THEN x ELSE RNeg(x)

\* comparisons; every comparison with NaN is false
RLt(x, y) ==
    IF IsFinite(x) /\ IsFinite(y) THEN
        LET g == GCD(x.d, y.d) IN x.n * (y.d \div g) < y.n * (x.d \div g)
    ELSE IF x = NaN \/ y = NaN THEN FALSE
    ELSE IF IsFinite(x) THEN Sign(y) > 0
    ELSE IF IsFinite(y) THEN Sign(x) < 0
    ELSE Sign(x) < Sign(y)

RGt(x, y) == RLt(y, x)
RLe(x, y) == x # NaN /\ y # NaN /\ ~RLt(y, x)
RGe(x, y) == RLe(y, x)

RMax(x, y) == IF x = NaN \/ y = NaN THEN NaN ELSE IF RLt(x, y) THEN y ELSE x
RMin(x, y) == IF x = NaN \/ y = NaN THEN NaN ELSE IF RLt(y, x) THEN y ELSE x

\* the builtins max(x, y) and min(x, y): y only if it compares beyond x, so a
\* NaN in second place is dropped
PyMax(x, y) == IF RGt(y, x) THEN y ELSE x
PyMin(x, y) == IF RLt(y, x) THEN y ELSE x

\* truncation toward zero of a finite value, as an integer
Trunc(x) == IF x.n >= 0 THEN x.n \div x.d ELSE -((-x.n) \div x.d)

\* round half to even of a finite value, as an integer
RoundHalfEven(x) ==
    LET fl == x.n \div x.d
        r2 == 2 * (x.n - fl * x.d)
    IN  IF r2 < x.d THEN fl
        ELSE IF r2 > x.d THEN fl + 1
        ELSE IF fl % 2 = 0 THEN fl ELSE fl + 1

\* ndarray.round(3) / Series.round(3)
Round3(x) ==
    IF IsFinite(x) THEN Norm(RoundHalfEven(RMul(x, RInt(1000))), 1000) ELSE x

(***************************************************************************)
(* Vectors: one entry per asset, in column order.                          *)
(***************************************************************************)
RECURSIVE SumTo(_, _)
SumTo(v, k) == IF k = 0 THEN Zero ELSE RAdd(SumTo(v, k - 1), v[k])

\* numpy sum: NaN propagates
VSum(v) == SumTo(v, Len(v))

\* pandas Series.sum(): NaN entries are skipped
VSumSkipNa(v) == SumTo([i \in 1..Len(v) |-> IF v[i] = NaN THEN Zero ELSE v[i]], Len(v))

VAdd(u, v) == [i \in 1..Len(u) |-> RAdd(u[i], v[i])]
VSub(u, v) == [i \in 1..Len(u) |-> RSub(u[i], v[i])]
VMul(u, v) == [i \in 1..Len(u) |-> RMul(u[i], v[i])]
VScale(v, c) == [i \in 1..Len(v) |-> RMul(v[i], c)]
VDivBy(v, c) == [i \in 1..Len(v) |-> RDiv(v[i], c)]
VFull(k, c) == [i \in 1..k |-> c]
\* np.maximum(v, 0): NaN propagates
VMax0(v) == [i \in 1..Len(v) |-> RMax(v[i], Zero)]


(***************************************************************************)
(* The asset universe and the inputs a Backtester is constructed with.     *)
(***************************************************************************)
Tickers == <<"A", "B">>
N == Len(Tickers)
Assets == 1..N

\* price of one asset at row r (numbered from 0), by the shape of its path
PriceAt(shape, r) ==
    CASE shape = "flat"   -> 4
      [] shape = "double" -> 2 ^ r
      [] shape = "saw"    -> IF r % 2 = 0 THEN 2 ELSE 1
      [] shape = "wave"   -> <<256, 192, 288, 216, 324, 243>>[r + 1]
      [] shape = "late"   -> 2 ^ r
      [] shape = "gap"    -> 2 ^ r
      [] shape = "refA"   -> <<100, 110, 121, 110, 100, 110>>[r + 1]
      [] shape = "refB"   -> <<50, 55, 50, 55, 50, 55>>[r + 1]

Shapes == {"flat", "double", "saw", "wave"}

\* an asset listed late has no observation in the first row, an asset with a
\* gap has none in the second
PriceCell(shape, r) ==
    IF (shape = "late" /\ r = 0) \/ (shape = "gap" /\ r = 1) THEN NaN
    ELSE RInt(PriceAt(shape, r))

\* tables with missing observations, and the table 100,50 / 110,55 / 121,50
SpecialShapes == {<<"late", "double">>, <<"gap", "saw">>, <<"refA", "refB">>}

\* a price table: one row per date, one column per asset
PriceTable(shapes, rows) ==
    [r \in 1..rows |-> [i \in Assets |-> PriceCell(shapes[i], r - 1)]]

PriceTables ==
    {PriceTable(sh, rows) : sh \in [Assets -> Shapes] \cup SpecialShapes,
                            rows \in 0..MaxRows}

CashValues == {0, 1, 3, 100}

InitialAllocations ==
    { <<>>, <<RInt(5)>>, <<Zero, Zero>>, <<RInt(10), RInt(3)>>,
      <<RInt(1), RInt(2), RInt(3)>> }

\* the policy classes of the model, by class name
Kinds == {"EqualWeight", "ValueAveraging", "Momentum", "RiskParity", "MVO"}

\* strategy mappings {name: instance}; a name is a position of the sequence
\* (dict order), the entry is the class of its instance
StrategyMaps ==
    { <<>>, <<"EqualWeight">>, <<"ValueAveraging">>, <<"Momentum">>,
      <<"RiskParity">>, <<"MVO">>, <<"EqualWeight", "ValueAveraging">>,
      <<"Momentum", "RiskParity">>, <<"EqualWeight", "MVO">>,
      <<"MVO", "EqualWeight">>, <<"ValueAveraging", "ValueAveraging">> }

(***************************************************************************)
(* Backtester.__init__: the derived return table and its index.            *)
(***************************************************************************)
\* DataFrame.ffill(): a missing observation takes the last one before it
RECURSIVE FFillCell(_, _, _)
FFillCell(p, r, i) ==
    IF p[r][i] # NaN \/ r = 1 THEN p[r][i] ELSE FFillCell(p, r - 1, i)

FFill(p) == [r \in 1..Len(p) |-> [i \in Assets |-> FFillCell(p, r, i)]]

\* pct_change(fill_method=None): the row of price row k (numbered from 0) is
\* the return between price rows k-1 and k and carries the date of row k; the
\* row of price row 0 is all NaN
PctChange(p) ==
    [k \in 1..Len(p) |->
        [date |-> k - 1,
         row  |-> [i \in Assets |->
                      IF k = 1 THEN NaN
                      ELSE RSub(RDiv(p[k][i], p[k - 1][i]), RInt(1))]]]

\* dropna(): rows holding a NaN are removed, the others keep their dates
DropNa(rows) == SelectSeq(rows, LAMBDA e : \A i \in Assets : e.row[i] # NaN)

\* prices.ffill().pct_change(fill_method=None).dropna()
Returns(p) == DropNa(PctChange(FFill(p)))

\* self.dates = self.returns.index
Dates(p) == [k \in 1..Len(Returns(p)) |-> Returns(p)[k].date]

\* python slice seq[a:b] of a sequence (0-based, end exclusive, clipped)
Slice(seq, a, b) ==
    LET lo == IF a < 0 THEN 0 ELSE a
        hi == IF b > Len(seq) THEN Len(seq) ELSE b
    IN  IF hi <= lo THEN <<>> ELSE SubSeq(seq, lo + 1, hi)

\* the last k rows of a table: df[-k:], df.tail(k)
LastRows(seq, k) == Slice(seq, IF Len(seq) > k THEN Len(seq) - k ELSE 0, Len(seq))

(***************************************************************************)
(* Column statistics of a returns window (a sequence of return rows).      *)
(***************************************************************************)
Col(win, i) == [k \in 1..Len(win) |-> win[k].row[i]]

\* Series.mean()
Mean(xs) == RDiv(VSum(xs), RInt(Len(xs)))

\* sample variance, ddof = 1; NaN for a single row
Var(xs) ==
    LET m == Mean(xs)
    IN  RDiv(VSum([k \in 1..Len(xs) |-> RMul(RSub(xs[k], m), RSub(xs[k], m))]),
             RInt(Len(xs) - 1))

RECURSIVE ISqrtBetween(_, _, _)
ISqrtBetween(x, lo, hi) ==
    IF lo >= hi THEN lo
    ELSE LET mid == (lo + hi + 1) \div 2
         IN  IF mid * mid <= x THEN ISqrtBetween(x, mid, hi)
             ELSE ISqrtBetween(x, lo, mid - 1)

\* floor of the square root of a natural number
ISqrt(x) == ISqrtBetween(x, 0, IF x < 46340 THEN x ELSE 46340)

\* square root: exact where the value is the square of a rational, else
\* rounded down to a multiple of 1/(16 d)
RSqrt(x) ==
    IF ~IsFinite(x) THEN x
    ELSE IF x.n < 0 THEN NaN
    ELSE LET r == ISqrt(x.n * x.d)
         IN  IF r * r = x.n * x.d THEN Norm(r, x.d)
             ELSE Norm(ISqrt(x.n * x.d * 256), 16 * x.d)

(***************************************************************************)
(* Allocation policies.  optimize() is modelled as the set of its possible *)
(* outcomes: [ok |-> TRUE, alloc, port, wts] for a returned DataFrame      *)
(* ('New Allocation', 'New Portfolio', 'New Weights'), [ok |-> FALSE] for  *)
(* an exception.                                                           *)
(***************************************************************************)
Returned(allocation, new_portfolio, weights) ==
    [ok |-> TRUE, alloc |-> allocation, port |-> new_portfolio, wts |-> weights]

Raised == [ok |-> FALSE, alloc |-> <<>>, port |-> <<>>, wts |-> <<>>]

\* if allocation.sum() > new_capital: allocation / allocation.sum() * new_capital
Rescale(allocation, total, new_capital) ==
    IF RGt(total, new_capital)
    THEN VScale(VDivBy(allocation, total), new_capital)
    ELSE allocation

\* new_portfolio / new_portfolio.sum() if new_portfolio.sum() > 0 else zeros
WeightsOf(new_portfolio, total) ==
    IF RGt(total, Zero) THEN VDivBy(new_portfolio, total)
    ELSE VFull(Len(new_portfolio), Zero)

\* a policy that hands the whole of the new capital to every asset
EqualWeightUndivided(current_portfolio, new_capital) ==
    LET n == Len(current_portfolio)
        allocation == VFull(n, new_capital)
        new_portfolio == VAdd(current_portfolio, allocation)
        weights == VDivBy(new_portfolio, VSum(new_portfolio))
    IN  {Returned(allocation, new_portfolio, [i \in 1..n |-> Round3(weights[i])])}

EqualWeightOptimize(current_portfolio, new_capital) ==
    LET n == Len(current_portfolio)
        allocation == VFull(n, RDiv(new_capital, RInt(n)))
        new_portfolio == VAdd(current_portfolio, allocation)
        weights == VDivBy(new_portfolio, VSum(new_portfolio))
    IN  {Returned(allocation, new_portfolio, [i \in 1..n |-> Round3(weights[i])])}

\* target_growth_rate = 0.02
TargetGrowthRate == [n |-> 1, d |-> 50]

\* t is the instance counter after self.t += 1
ValueAveragingOptimize(current_portfolio, new_capital, t) ==
    LET V0 == VSum(current_portfolio)
        Vtarget == RMul(RMul(new_capital, RInt(t)), RAdd(RInt(1), TargetGrowthRate))
        D == PyMin(PyMax(Zero, RSub(Vtarget, V0)), new_capital)
        n_assets == N
        equal_alloc == IF RGt(D, Zero) THEN RDiv(D, RInt(n_assets)) ELSE Zero
        target_portfolio == VAdd(current_portfolio, VFull(Len(current_portfolio), equal_alloc))
        allocation0 == VMax0(VSub(target_portfolio, current_portfolio))
        allocation == Rescale(allocation0, VSum(allocation0), new_capital)
        new_portfolio == VAdd(current_portfolio, allocation)
        total_value == VSum(new_portfolio)
    IN  {Returned(allocation, new_portfolio, WeightsOf(new_portfolio, total_value))}

\* MomentumStrategy defaults: lookback = 6, vol_threshold = 0.1, no diversification
MomentumLookback == 6
VolThreshold == [n |-> 1, d |-> 10]

MomentumOptimize(current_portfolio, new_capital, returns_history) ==
    LET V0 == VSum(current_portfolio)
        Vt == RAdd(V0, new_capital)
        window == LastRows(returns_history, MomentumLookback)
        mean == [i \in Assets |-> Mean(Col(window, i))]
        var == [i \in Assets |-> Var(Col(window, i))]
        \* vol > vol_threshold, decided on the variance
        momentum_returns ==
            [i \in Assets |->
                IF RLt(mean[i], Zero) \/ RGt(var[i], RMul(VolThreshold, VolThreshold))
                THEN Zero ELSE mean[i]]
        equal_weights == VFull(N, RDiv(RInt(1), RInt(N)))
        weights == IF VSumSkipNa(momentum_returns) = Zero THEN equal_weights
                   ELSE VDivBy(momentum_returns, VSumSkipNa(momentum_returns))
        target_portfolio == VScale(weights, Vt)
        allocation0 == VMax0(VSub(target_portfolio, current_portfolio))
        allocation == Rescale(allocation0, VSum(allocation0), new_capital)
        new_portfolio == VAdd(current_portfolio, allocation)
    IN  {Returned(allocation, new_portfolio, weights)}

\* w = inv_vol / inv_vol.sum() with inv_vol = 1 / vol.replace(0, np.nan) and
\* vol the column standard deviations: an asset of zero (or undefined)
\* volatility gets NaN and is skipped by the sum.  1/vol_i over the sum of the
\* 1/vol_j is evaluated as 1 over the sum of sqrt(var_i / var_j), which keeps
\* the weights exact where the volatility ratios are rational.
InvVolWeights(var) ==
    LET valid(i) == IsFinite(var[i]) /\ var[i] # Zero
        ratio(i, j) == IF valid(j) THEN RSqrt(RDiv(var[i], var[j])) ELSE Zero
    IN  [i \in 1..Len(var) |->
            IF valid(i)
            THEN RDiv(RInt(1), VSum([j \in 1..Len(var) |-> ratio(i, j)]))
            ELSE NaN]

\* RiskParityStrategy default lookback = -1: the whole window
RiskParityOptimize(current_portfolio, new_capital, returns_history) ==
    LET V0 == VSum(current_portfolio)
        Vt == RAdd(V0, new_capital)
        w == InvVolWeights([i \in Assets |-> Var(Col(returns_history, i))])
        target_portfolio == VScale(w, Vt)
        allocation0 == VMax0(VSub(target_portfolio, current_portfolio))
        allocation == Rescale(allocation0, VSumSkipNa(allocation0), new_capital)
        new_portfolio == VAdd(current_portfolio, allocation)
    IN  {Returned(allocation, new_portfolio,
                  WeightsOf(new_portfolio, VSumSkipNa(new_portfolio)))}

\* the ways the solver may split the new capital B over the assets when it
\* finds an optimum: all of it to one asset, or equal parts
SolverSplits == {[i \in Assets |-> IF i = k THEN RInt(1) ELSE Zero] : k \in Assets}
                \cup {VFull(N, RDiv(RInt(1), RInt(N)))}

\* MeanVarianceOptimizationStrategy: prob.solve() is external; w.value is either
\* a point of the feasible set {sum(w) = 1, w >= A / Vt} or None (no optimum),
\* and None.round raises
MVOOptimize(current_portfolio, new_capital) ==
    LET A == current_portfolio
        Vt == RAdd(VSum(A), new_capital)
        Solved(split) ==
            LET w == VDivBy(VAdd(A, VScale(split, new_capital)), Vt)
                allocation == [i \in Assets |->
                                  RInt(RoundHalfEven(RSub(RMul(w[i], Vt), A[i])))]
                new_portfolio == [i \in Assets |->
                                     RInt(RoundHalfEven(RAdd(A[i], allocation[i])))]
            IN  Returned(allocation, new_portfolio, [i \in Assets |-> Round3(w[i])])
    IN  {Raised} \cup (IF RGt(Vt, Zero) THEN {Solved(sp) : sp \in SolverSplits} ELSE {})

\* the objects optimize() receives
Arguments == {"current_portfolio", "price_history", "returns_history"}

\* a policy that clips the returns table it was handed, in place
InPlaceWritesOnHistory(kind) ==
    IF kind = "Momentum" THEN {"returns_history"} ELSE {}

\* the objects optimize() assigns into in place: MomentumStrategy zeroes
\* entries of momentum_returns, the Series that mean() built;
\* ValueAveragingStrategy increments its counter; the others build new arrays
InPlaceWrites(kind) ==
    CASE kind = "Momentum"       -> {"momentum_returns"}
      [] kind = "ValueAveraging" -> {"self.t"}
      [] OTHER                   -> {}

\* strat.optimize(...) by the class of the instance
Optimize(kind, current_portfolio, new_capital, returns_history, t) ==
    CASE kind = "EqualWeight"    -> EqualWeightOptimize(current_portfolio, new_capital)
      [] kind = "ValueAveraging" -> ValueAveragingOptimize(current_portfolio, new_capital, t)
      [] kind = "Momentum"       -> MomentumOptimize(current_portfolio, new_capital, returns_history)
      [] kind = "RiskParity"     -> RiskParityOptimize(current_portfolio, new_capital, returns_history)
      [] kind = "MVO"            -> MVOOptimize(current_portfolio, new_capital)

(***************************************************************************)
(* State of one Backtester and of one call of run().                       *)
(***************************************************************************)
VARIABLES
    strategies,          \* self.strategies: class of the instance, per name
    prices,              \* self.prices
    initial_allocation,  \* self.initial_allocation
    monthly_cash,        \* self.monthly_cash
    rolling_window,      \* self.rolling_window
    instances,           \* self.strategies: which object each name maps to
    policy_t,            \* ValueAveragingStrategy.t of each instance
    pc,                  \* where run() is
    buffers,             \* buffers[name]: curr, vals, allocs, weights, total
    idx,                 \* the loop variable of the time evolution loop
    sidx,                \* position of the strategy loop within the period
    hist_start,          \* first row of the current history window
    growth,              \* growth factors of the current period, <<>> before
    results,             \* what run() returned, <<>> before and if it raised
    error,               \* the exception run() raised, "none" otherwise
    calls,               \* optimize() invocations so far, as <<name, idx>>
    last_call,           \* arguments of the latest optimize() invocation
    trail,               \* per name and record: what the policy was given
                         \* and what it returned (history variable)
    runs,                \* calls of run() that returned before this one
    prior,               \* what the previous call of run() returned
    loader,              \* the DataLoader the price table came from
    probe                \* one optimize() call made outside a backtest

vars == <<strategies, prices, initial_allocation, monthly_cash, rolling_window,
          policy_t, pc, buffers, idx, sidx, hist_start, growth, results, error,
          calls, last_call, trail, runs, prior, loader, instances, probe>>

inputs == <<strategies, prices, initial_allocation, monthly_cash, rolling_window,
            loader, instances, probe>>

\* what the caller of run() holds
caller == <<runs, prior>>

Names == 1..Len(strategies)

\* n = len(self.dates); start = self.rolling_window
n == Len(Dates(prices))
start == rolling_window

NoCall == [name |-> 0, idx |-> 0, price_dates |-> {}, returns_dates |-> {},
           current_portfolio |-> <<>>, new_capital |-> Zero, written |-> {}]

\* a price table handed to Backtester directly, not through a DataLoader
NoLoader == [pc |-> "unused", currency |-> "USD", data |-> <<>>, fx |-> <<>>,
             out |-> <<>>]

\* no policy is called outside the backtest
NoProbe == [pc |-> "unused"]

\* every name of the mapping has a policy object of its own
Distinct == [s \in Names |-> s]

\* Backtester(...) on any inputs; the policy objects are freshly constructed
Constructed ==
    /\ strategies \in StrategyMaps
    /\ prices \in PriceTables
    /\ initial_allocation \in InitialAllocations
    /\ monthly_cash \in {RInt(c) : c \in CashValues}
    /\ rolling_window \in 0..MaxWindow
    /\ policy_t = [s \in Names |-> 0]
    /\ pc = "constructed"
    /\ buffers = <<>>
    /\ idx = 0
    /\ sidx = 0
    /\ hist_start = 0
    /\ growth = <<>>
    /\ results = <<>>
    /\ error = "none"
    /\ calls = <<>>
    /\ last_call = NoCall
    /\ trail = [s \in Names |-> <<>>]
    /\ runs = 0
    /\ prior = <<>>
    /\ loader = NoLoader
    /\ probe = NoProbe

Init ==
    /\ Constructed
    /\ instances = Distinct

(***************************************************************************)
(* run(): the guard on the strategy mapping and the buffers.               *)
(***************************************************************************)
\* a guard that tests for None instead of emptiness lets {} through
StrategiesIsNone(strats) == FALSE

\* "if not self.strategies"
NoStrategies(strats) == strats = <<>>

RunNoStrategies ==
    /\ pc = "constructed"
    /\ NoStrategies(strategies)
    /\ pc' = "raised"
    /\ error' = "ValueError"
    /\ UNCHANGED <<inputs, caller, policy_t, buffers, idx, sidx, hist_start, growth,
                   results, calls, last_call, trail>>

\* buffers that outlive the call: the next call goes on from the state the
\* previous one left
NewBufferResumed(allocation) ==
    [curr |-> IF prior # <<>> /\ Len(prior[1].asset_values) >= 1
              THEN prior[1].asset_values[Len(prior[1].asset_values)]
              ELSE allocation,
     vals |-> <<>>, allocs |-> <<>>, weights |-> <<>>, total |-> <<>>]

NewBuffer(allocation) ==
    [curr |-> allocation, vals |-> <<>>, allocs |-> <<>>, weights |-> <<>>,
     total |-> <<>>]

RunInit ==
    /\ pc = "constructed"
    /\ ~NoStrategies(strategies)
    /\ buffers' = [s \in Names |-> NewBuffer(initial_allocation)]
    /\ idx' = start
    /\ pc' = "loop"
    /\ UNCHANGED <<inputs, caller, policy_t, sidx, hist_start, growth, results, error,
                   calls, last_call, trail>>

(***************************************************************************)
(* One pass of the time evolution loop up to the strategy loop.            *)
(***************************************************************************)
\* a window that expands from the first row instead of rolling
HistStartExpanding(i) == 0

HistStart(i) == IF i - rolling_window > 0 THEN i - rolling_window ELSE 0

\* self.prices.iloc[hist_start : idx + 1], as the rows and their dates
PriceHist(i) == Slice(prices, HistStart(i), i + 1)
PriceHistDates(i) ==
    {r \in HistStart(i)..i : r < Len(prices)}

\* self.returns.iloc[hist_start : idx + 1]
ReturnsHist(i) == Slice(Returns(prices), HistStart(i), i + 1)
ReturnsHistDates(i) == {ReturnsHist(i)[k].date : k \in 1..Len(ReturnsHist(i))}

\* price_hist.iloc[-1] / price_hist.iloc[-2]
Growth(price_hist) ==
    LET prev_price == price_hist[Len(price_hist) - 1]
        curr_price == price_hist[Len(price_hist)]
    IN  [i \in Assets |-> RDiv(curr_price[i], prev_price[i])]

PeriodBegin ==
    /\ pc = "loop"
    /\ idx < n
    /\ Len(PriceHist(idx)) >= 2
    /\ hist_start' = HistStart(idx)
    /\ growth' = Growth(PriceHist(idx))
    /\ sidx' = 1
    /\ pc' = "strategies"
    /\ UNCHANGED <<inputs, caller, policy_t, buffers, idx, results, error, calls,
                   last_call, trail>>

\* price_hist.iloc[-2] on a window of fewer than two rows
PeriodBeginRaise ==
    /\ pc = "loop"
    /\ idx < n
    /\ Len(PriceHist(idx)) < 2
    /\ hist_start' = HistStart(idx)
    /\ pc' = "raised"
    /\ error' = "IndexError"
    /\ UNCHANGED <<inputs, caller, policy_t, buffers, idx, sidx, growth, results,
                   calls, last_call, trail>>

(***************************************************************************)
(* One pass of the strategy loop: aging, the policy, fees, the record.     *)
(***************************************************************************)
\* buf['curr'] * growth is defined when the lengths agree, and numpy also
\* broadcasts a vector of length 1 over the assets
Broadcastable(curr) == Len(curr) = N \/ Len(curr) = 1

\* a strategy loop that keeps one state for all the strategies
StateOfFirst(s) == buffers[1].curr

\* buf = buffers[name]; buf['curr']
StateOf(s) == buffers[s].curr

\* curr_holdings = np.array(buf['curr'] * growth)
Age(curr, g) ==
    [i \in Assets |-> RMul(IF Len(curr) = 1 THEN curr[1] ELSE curr[i], g[i])]

\* Amounts at or below -2^63 are outside the arithmetic of the model: a run
\* whose state holds one is not followed further.
InRange(curr) == \A i \in 1..Len(curr) : IsFinite(curr[i])

\* np.asarray(values, dtype=int) truncates toward zero; the cast of NaN or
\* +-Inf is undefined: -2^63 on x86, 0 on other builds
NaNCastOutcomes == {HugeNeg, Zero}

CastInt(x, nan_as) == IF IsFinite(x) THEN RInt(Trunc(x)) ELSE nan_as

CastOutcomes(out) ==
    IF \A i \in Assets : IsFinite(out.alloc[i]) /\ IsFinite(out.port[i])
    THEN {Zero} ELSE NaNCastOutcomes

\* 1.75 per trade
Fee == [n |-> 7, d |-> 4]

\* a fee charged on every position, traded or not
TradedAlways(new_alloc) == 1

\* (new_allocs > 0).astype(int)
Traded(new_alloc) == IF RGt(new_alloc, Zero) THEN 1 ELSE 0

\* a fee proportional to the amount allocated
AfterFeesPerDollar(new_vals, new_allocs) ==
    [i \in Assets |-> RSub(new_vals[i], RMul(Fee, RMax(new_allocs[i], Zero)))]

\* new_vals - (1.75 * (new_allocs > 0).astype(int))
AfterFees(new_vals, new_allocs) ==
    [i \in Assets |-> RSub(new_vals[i], RMul(Fee, RInt(Traded(new_allocs[i]))))]

\* a total kept in whole units
TotalValWhole(new_vals) ==
    VSum([i \in 1..Len(new_vals) |->
             IF IsFinite(new_vals[i]) THEN RInt(Trunc(new_vals[i])) ELSE new_vals[i]])

\* total_val = new_vals.sum()
TotalVal(new_vals) == VSum(new_vals)

\* step 5 of the loop body, from the policy's DataFrame
Extract(out, nan_as) ==
    LET new_allocs == [i \in Assets |-> CastInt(out.alloc[i], nan_as)]
        new_vals0 == [i \in Assets |-> CastInt(out.port[i], nan_as)]
        new_vals == AfterFees(new_vals0, new_allocs)
    IN  [allocs |-> new_allocs, vals |-> new_vals, wts |-> out.wts,
         total |-> TotalVal(new_vals)]

\* an engine that keeps the aged pre-trade holdings as the state: the record
\* is appended, the state is not replaced by it
StoreKeepState(buf, rec) ==
    [curr    |-> buf.curr,
     vals    |-> Append(buf.vals, rec.vals),
     allocs  |-> Append(buf.allocs, rec.allocs),
     weights |-> Append(buf.weights, rec.wts),
     total   |-> Append(buf.total, rec.total)]

\* a buffer that keeps the latest record only
StoreLatestOnly(buf, rec) ==
    [curr    |-> rec.vals,
     vals    |-> <<rec.vals>>,
     allocs  |-> <<rec.allocs>>,
     weights |-> <<rec.wts>>,
     total   |-> <<rec.total>>]

\* steps 6 and 7: append the record, replace the state
Store(buf, rec) ==
    [curr    |-> rec.vals,
     vals    |-> Append(buf.vals, rec.vals),
     allocs  |-> Append(buf.allocs, rec.allocs),
     weights |-> Append(buf.weights, rec.wts),
     total   |-> Append(buf.total, rec.total)]

\* a counter that starts again with every run()
CounterPerRun(s) ==
    IF strategies[s] = "ValueAveraging"
    THEN Cardinality({j \in 1..Len(calls) :
                         instances[calls[j][1]] = instances[s]}) + 1
    ELSE policy_t[instances[s]]

\* self.t += 1 happens in ValueAveragingStrategy.optimize only; the counter
\* is the object's, so names that map to one object count together
CounterAfter(s) ==
    IF strategies[s] = "ValueAveraging" THEN policy_t[instances[s]] + 1
    ELSE policy_t[instances[s]]

\* an engine that adds what the previous period left unused to the cash
NewCapitalWithUnused(s) ==
    IF Len(trail[s]) = 0 THEN monthly_cash
    ELSE RAdd(monthly_cash,
              RSub(trail[s][Len(trail[s])].new_capital,
                   VSum(trail[s][Len(trail[s])].alloc)))

\* new_capital = self.monthly_cash
NewCapital(s) == monthly_cash

CallOf(s, curr_holdings) ==
    [name |-> s, idx |-> idx,
     price_dates |-> PriceHistDates(idx),
     returns_dates |-> ReturnsHistDates(idx),
     current_portfolio |-> curr_holdings,
     new_capital |-> NewCapital(s),
     written |-> InPlaceWrites(strategies[s])]

\* a loop that moves on to the next period after the first strategy
AdvancePeriodFirst(s) ==
    [pc |-> "loop", error |-> "none", sidx |-> 0, idx |-> idx + 1]

\* the next iteration after strategy s: the next strategy, or the next period
Advance(s) ==
    IF s < Len(strategies)
    THEN [pc |-> "strategies", error |-> "none", sidx |-> s + 1, idx |-> idx]
    ELSE [pc |-> "loop", error |-> "none", sidx |-> 0, idx |-> idx + 1]

\* an engine that catches the exception and goes on with the next strategy
CatchAndSkip(s) == Advance(s)

\* where run() goes when optimize() raised: nothing catches it
Propagate(s) == [pc |-> "raised", error |-> "PolicyError", sidx |-> s, idx |-> idx]

StrategyStep ==
    /\ pc = "strategies"
    /\ InRange(StateOf(sidx))
    /\ Broadcastable(StateOf(sidx))
    /\ LET s == sidx
           curr_holdings == Age(StateOf(s), growth)
       IN  /\ \E out \in Optimize(strategies[s], curr_holdings, NewCapital(s),
                                  ReturnsHist(idx), CounterAfter(s)) :
                /\ out.ok
                /\ \E nan_as \in CastOutcomes(out) :
                     buffers' = [buffers EXCEPT ![s] = Store(@, Extract(out, nan_as))]
                /\ trail' = [trail EXCEPT ![s] =
                                Append(@, [idx |-> idx, aged |-> curr_holdings,
                                           alloc |-> out.alloc, port |-> out.port,
                                           hist_start |-> hist_start,
                                           growth |-> growth,
                                           new_capital |-> NewCapital(s),
                                           t |-> CounterAfter(s)])]
           /\ policy_t' = [policy_t EXCEPT ![instances[s]] = CounterAfter(s)]
           /\ calls' = Append(calls, <<s, idx>>)
           /\ last_call' = CallOf(s, curr_holdings)
           /\ pc' = Advance(s).pc
           /\ sidx' = Advance(s).sidx
           /\ idx' = Advance(s).idx
    /\ UNCHANGED <<inputs, caller, hist_start, growth, results, error>>

\* optimize() raises
StrategyPolicyRaise ==
    /\ pc = "strategies"
    /\ InRange(StateOf(sidx))
    /\ Broadcastable(StateOf(sidx))
    /\ LET s == sidx
           curr_holdings == Age(StateOf(s), growth)
       IN  /\ \E out \in Optimize(strategies[s], curr_holdings, NewCapital(s),
                                  ReturnsHist(idx), CounterAfter(s)) : ~out.ok
           /\ policy_t' = [policy_t EXCEPT ![instances[s]] = CounterAfter(s)]
           /\ calls' = Append(calls, <<s, idx>>)
           /\ last_call' = CallOf(s, curr_holdings)
           /\ pc' = Propagate(s).pc
           /\ error' = Propagate(s).error
           /\ sidx' = Propagate(s).sidx
           /\ idx' = Propagate(s).idx
    /\ UNCHANGED <<inputs, caller, buffers, hist_start, growth, results, trail>>

\* buf['curr'] * growth raises: the lengths cannot be broadcast
StrategyAgeRaise ==
    /\ pc = "strategies"
    /\ ~Broadcastable(StateOf(sidx))
    /\ pc' = "raised"
    /\ error' = "ValueError"
    /\ UNCHANGED <<inputs, caller, policy_t, buffers, idx, sidx, hist_start, growth,
                   results, calls, last_call, trail>>

(***************************************************************************)
(* Step 8: the buffers become the result tables.                           *)
(***************************************************************************)
\* an index cut from the front of the dates instead of after the warm-up
ResultIndexFromFirst == Slice(Dates(prices), 0, IF n > start THEN n - start ELSE 0)

\* dates = self.dates[start:]
ResultIndex == Slice(Dates(prices), start, n)

ResultOf(buf) ==
    [index        |-> ResultIndex,
     asset_values |-> buf.vals,
     allocations  |-> buf.allocs,
     weights      |-> buf.weights,
     total_values |-> buf.total]

RunReturn ==
    /\ pc = "loop"
    /\ idx >= n
    /\ results' = [s \in Names |-> ResultOf(buffers[s])]
    /\ pc' = "returned"
    /\ UNCHANGED <<inputs, caller, policy_t, buffers, idx, sidx, hist_start, growth,
                   error, calls, last_call, trail>>

(***************************************************************************)
(* The caller calls run() on the same Backtester once more.  The buffers    *)
(* and the loop variables are locals of run() and start afresh; the policy *)
(* instances, and with them their counters, are the same objects.          *)
(***************************************************************************)
RunAgain ==
    /\ pc = "returned"
    /\ runs + 1 < MaxRuns
    /\ runs' = runs + 1
    /\ prior' = results
    /\ pc' = "constructed"
    /\ buffers' = <<>>
    /\ idx' = 0
    /\ sidx' = 0
    /\ hist_start' = 0
    /\ growth' = <<>>
    /\ results' = <<>>
    /\ calls' = <<>>
    /\ last_call' = NoCall
    /\ trail' = [s \in Names |-> <<>>]
    /\ UNCHANGED <<inputs, policy_t, error>>

Next ==
    \/ RunNoStrategies
    \/ RunInit
    \/ PeriodBegin
    \/ PeriodBeginRaise
    \/ StrategyStep
    \/ StrategyPolicyRaise
    \/ StrategyAgeRaise
    \/ RunReturn

Spec == Init /\ [][Next]_vars

(***************************************************************************)
(* run() called repeatedly on one Backtester that was constructed with a   *)
(* non-empty strategy mapping, an initial allocation of one entry per      *)
(* asset and a rolling window of at least one period: the inputs with      *)
(* which run() can return and a second call is comparable to the first.    *)
(* The policies are those that compute their result themselves; what the   *)
(* external solver of the mean-variance policy returns is not part of it.  *)
(***************************************************************************)
\* the mappings of a strategy list: an object per name, or one object under
\* every name when the names are of one class
InstanceMaps ==
    {Distinct} \cup
    {[s \in Names |-> 1] : k \in {c \in Kinds : \A s \in Names : strategies[s] = c}}

InitTwice ==
    /\ Constructed
    /\ instances \in InstanceMaps
    /\ strategies # <<>>
    /\ \A s \in Names : strategies[s] # "MVO"
    /\ Len(initial_allocation) = N
    /\ rolling_window >= 1

NextTwice ==
    \/ RunInit
    \/ PeriodBegin
    \/ StrategyStep
    \/ RunReturn
    \/ RunAgain

SpecTwice == InitTwice /\ [][NextTwice]_vars

(***************************************************************************)
(* DataLoader (data/loader.py).  What yfinance delivers is the             *)
(* environment's: a table of USD prices and a series of FX rates, the      *)
(* latter a function from the dates it has an observation for to the rate. *)
(***************************************************************************)
Currencies == {"USD", "EUR"}

\* the FX series a download may deliver: par, a constant rate, a moving rate,
\* a rate observed on even dates only, a rate whose first observation is late
FxSeries ==
    { [d \in 0..MaxRows |-> RInt(1)],
      [d \in 0..MaxRows |-> RInt(2)],
      [d \in 0..MaxRows |-> RInt(d + 1)],
      [d \in {e \in 0..MaxRows : e % 2 = 0} |-> RInt(2)],
      [d \in 1..MaxRows |-> RInt(4)] }

\* fx_data.reindex(data.index): the rate of each price date (row r has date
\* r - 1), NaN where the series has no observation
Reindex(fx, data) ==
    [r \in 1..Len(data) |-> IF (r - 1) \in DOMAIN fx THEN fx[r - 1] ELSE NaN]

\* Series.ffill()
RECURSIVE FFillAt(_, _)
FFillAt(ser, r) ==
    IF ser[r] # NaN \/ r = 1 THEN ser[r] ELSE FFillAt(ser, r - 1)

FFillSeries(ser) == [r \in 1..Len(ser) |-> FFillAt(ser, r)]

\* data.div(fx, axis=0): every price of a row divided by the rate of the row
DivRows(data, rates) ==
    [r \in 1..Len(data) |-> [i \in Assets |-> RDiv(data[r][i], rates[r])]]

\* convert_to_currency(data): the aligned series and the quotient are
\* computed, neither is assigned, and data itself is returned
ConvertToCurrency(data, fx) ==
    LET aligned == FFillSeries(Reindex(fx, data))
        quotient == DivRows(data, FFillSeries(Reindex(fx, data)))
    IN  data

\* fetch_prices() on the downloads data and fx
FetchPricesOf(currency, data, fx) ==
    FFill(IF currency # "USD" THEN ConvertToCurrency(data, fx) ELSE data)

InitLoader ==
    /\ loader \in {[pc |-> "constructed", currency |-> c, data |-> <<>>,
                     fx |-> <<>>, out |-> <<>>] : c \in Currencies}
    /\ strategies = <<>>
    /\ prices = <<>>
    /\ initial_allocation = <<>>
    /\ monthly_cash = Zero
    /\ rolling_window = 0
    /\ instances = <<>>
    /\ probe = NoProbe
    /\ policy_t = <<>>
    /\ pc = "constructed"
    /\ buffers = <<>>
    /\ idx = 0
    /\ sidx = 0
    /\ hist_start = 0
    /\ growth = <<>>
    /\ results = <<>>
    /\ error = "none"
    /\ calls = <<>>
    /\ last_call = NoCall
    /\ trail = <<>>
    /\ runs = 0
    /\ prior = <<>>

\* loader.fetch_prices()
FetchPrices ==
    /\ loader.pc = "constructed"
    /\ \E data \in PriceTables : \E fx \in FxSeries :
           loader' = [pc |-> "fetched", currency |-> loader.currency,
                      data |-> data, fx |-> fx,
                      out |-> FetchPricesOf(loader.currency, data, fx)]
    /\ UNCHANGED <<strategies, prices, initial_allocation, monthly_cash,
                   rolling_window, caller, policy_t, pc, buffers, idx, sidx,
                   hist_start, growth, results, error, calls, last_call, trail,
                   instances, probe>>

\* Backtester(prices = prices, ...) on the table the loader returned
HandOver ==
    /\ loader.pc = "fetched"
    /\ prices' = loader.out
    /\ loader' = [loader EXCEPT !.pc = "handed"]
    /\ UNCHANGED <<strategies, initial_allocation, monthly_cash,
                   rolling_window, caller, policy_t, pc, buffers, idx, sidx,
                   hist_start, growth, results, error, calls, last_call, trail,
                   instances, probe>>

NextLoader ==
    \/ FetchPrices
    \/ HandOver

SpecLoader == InitLoader /\ [][NextLoader]_vars

(***************************************************************************)
(* Properties.                                                             *)
(***************************************************************************)
Recorded(s) == 1..Len(buffers[s].vals)

\* the initial allocation has one entry per asset
WellFormed == Len(initial_allocation) = N

FiniteOut(tr) == \A i \in Assets : IsFinite(tr.alloc[i]) /\ IsFinite(tr.port[i])

\* the records the first simulated period can produce for a strategy of class
\* kind when the price table is q
FirstRecords(q, kind) ==
    LET i0 == rolling_window
        price_hist == Slice(q, HistStart(i0), i0 + 1)
        returns_hist == Slice(Returns(q), HistStart(i0), i0 + 1)
        outs == {o \in Optimize(kind, Age(initial_allocation, Growth(price_hist)),
                                monthly_cash, returns_hist, 1) : o.ok}
    IN  UNION {{Extract(o, c) : c \in CastOutcomes(o)} : o \in outs}

\* the price table with every row dated after t replaced by the row alt
FutureChanged(t, alt) ==
    [r \in 1..Len(prices) |-> IF r - 1 > t THEN alt ELSE prices[r]]

AltRows == {[i \in Assets |-> RInt(c)] : c \in {1, 8}}

\* Records of the first period do not depend on prices dated after it.
RecordsIgnoreFuture ==
    (last_call.name # 0 /\ last_call.idx = rolling_window
        /\ Broadcastable(initial_allocation)) =>
        \A alt \in AltRows :
            FirstRecords(FutureChanged(last_call.idx, alt), strategies[last_call.name])
                = FirstRecords(prices, strategies[last_call.name])

\* C1: no look-ahead. At every policy invocation of period t (the price row
\* whose growth is applied), no row of the price history or of the returns
\* history handed to the policy is dated later than t, and changing prices
\* dated after t does not change the record of t.
C1_NoLookAhead ==
    /\ last_call.name # 0 =>
           \A d \in last_call.price_dates \cup last_call.returns_dates :
               d <= last_call.idx
    /\ RecordsIgnoreFuture

\* C3: in every Period Record, in the buffers and in the returned tables, the
\* total value is exactly the sum of the post-fee asset values of that record.
C3_TotalIsSumOfAssetValues ==
    /\ \A s \in DOMAIN buffers : \A k \in Recorded(s) :
           buffers[s].total[k] = VSum(buffers[s].vals[k])
    /\ \A s \in DOMAIN results : \A k \in 1..Len(results[s].total_values) :
           results[s].total_values[k] = VSum(results[s].asset_values[k])

\* C3 witness: a run returned two periods of records, one of them with a fee
C3_Witness ==
    /\ pc = "returned"
    /\ \E s \in DOMAIN results :
           /\ Len(results[s].total_values) >= 2
           /\ \E k \in 1..Len(results[s].allocations) : \E i \in Assets :
                  RGt(results[s].allocations[k][i], Zero)

\* C8: run() on an empty strategy mapping raises ValueError and does nothing
\* else: no buffer, no period, no policy invocation, no result.
C8_EmptyStrategiesRaise ==
    strategies = <<>> =>
        /\ pc \in {"constructed", "raised"}
        /\ pc = "raised" => error = "ValueError"
        /\ buffers = <<>>
        /\ growth = <<>>
        /\ calls = <<>>
        /\ results = <<>>

\* C8 witness: the ValueError has been raised
C8_Witness == strategies = <<>> /\ pc = "raised" /\ error = "ValueError"

\* the number of periods the loop simulates
Periods == IF n > start THEN n - start ELSE 0

\* C10: all or nothing. A policy exception ends run() (it is neither caught
\* nor retried) and run() then returns nothing; a run that returns has one
\* record per simulated period for every strategy, and every invocation
\* happened once.
C10_AllOrNothing ==
    /\ error = "PolicyError" =>
           pc = "raised" /\ Len(calls) >= 1 /\ calls[Len(calls)] = <<sidx, idx>>
    /\ pc = "raised" => results = <<>>
    /\ results # <<>> =>
           /\ pc = "returned"
           /\ error = "none"
           /\ DOMAIN results = Names
           /\ \A s \in Names :
                  /\ Len(results[s].asset_values) = Periods
                  /\ Len(results[s].allocations) = Periods
                  /\ Len(results[s].weights) = Periods
                  /\ Len(results[s].total_values) = Periods
    /\ \A a, b \in 1..Len(calls) : calls[a] = calls[b] => a = b

\* C10 witness: a policy raised after records had been appended
C10_Witness ==
    /\ pc = "raised"
    /\ error = "PolicyError"
    /\ \E s \in DOMAIN buffers : Len(buffers[s].vals) >= 1

RAbs(x) == IF RLt(x, Zero) THEN RNeg(x) ELSE x

\* fees of one record: 1.75 for every asset with a recorded allocation > 0
FeesOf(allocs) ==
    RMul(Fee, RInt(Cardinality({i \in 1..Len(allocs) : RGt(allocs[i], Zero)})))

\* what the claimed conservation law gives for record k of strategy s
ConservedValue(s, k) ==
    RSub(RAdd(VSum(trail[s][k].aged), VSum(buffers[s].allocs[k])),
         FeesOf(buffers[s].allocs[k]))

\* C2 as stated: the total of every record is the sum of its asset values and
\* is sum(aged) + sum(recorded allocation) - 1.75 * (assets with allocation > 0).
C2_Original ==
    \A s \in DOMAIN buffers : \A k \in Recorded(s) :
        (WellFormed /\ FiniteOut(trail[s][k])) =>
            /\ buffers[s].total[k] = VSum(buffers[s].vals[k])
            /\ buffers[s].total[k] = ConservedValue(s, k)

\* C2 amended: the total of every record is the sum of its asset values, which
\* is the sum of the policy's 'New Portfolio' entries, each truncated to a whole
\* number, minus 1.75 per asset whose recorded allocation is > 0; because
\* portfolio and allocation are truncated separately it differs from
\* sum(aged) + sum(recorded allocation) - fees by less than 2 per asset.
C2_ValueUnderFeesAndTruncation ==
    \A s \in DOMAIN buffers : \A k \in Recorded(s) :
        FiniteOut(trail[s][k]) =>
            /\ buffers[s].total[k] = VSum(buffers[s].vals[k])
            /\ buffers[s].total[k] =
                   RSub(VSum([i \in Assets |-> RInt(Trunc(trail[s][k].port[i]))]),
                        FeesOf(buffers[s].allocs[k]))
            /\ RLt(RAbs(RSub(buffers[s].total[k], ConservedValue(s, k))),
                   RInt(2 * N))

\* C2 witness: a record whose total is not the conserved value, with a fee paid
C2_Witness ==
    \E s \in DOMAIN buffers : \E k \in Recorded(s) :
        /\ FiniteOut(trail[s][k])
        /\ buffers[s].total[k] # ConservedValue(s, k)
        /\ \E i \in Assets : RGt(buffers[s].allocs[k][i], Zero)

\* the result tables all have `rows` rows under a common, increasing index
AlignedResults(rows) ==
    \A s \in Names :
        /\ Len(results[s].index) = rows
        /\ Len(results[s].asset_values) = rows
        /\ Len(results[s].allocations) = rows
        /\ Len(results[s].weights) = rows
        /\ Len(results[s].total_values) = rows
        /\ rows > 0 => results[s].index[1] = Dates(prices)[rolling_window + 1]
        /\ \A a, b \in 1..Len(results[s].index) :
               a < b => results[s].index[a] < results[s].index[b]
        /\ \A s2 \in Names : results[s2].index = results[s].index

\* C4 as stated: every returned series has len(dates) - rolling_window rows,
\* starting at dates[rolling_window], for any rolling_window.
C4_Original == pc = "returned" => AlignedResults(n - rolling_window)

\* C4 amended: every returned series has max(0, len(dates) - rolling_window)
\* rows (none when the window is longer than the dates), the first row, if
\* any, is labelled dates[rolling_window], the index increases and is common
\* to all strategies; with rolling_window = 0 and at least one date run()
\* does not return.
C4_WarmUpAlignment ==
    /\ pc = "returned" => AlignedResults(IF n > rolling_window THEN n - rolling_window ELSE 0)
    /\ (rolling_window = 0 /\ n > 0) => pc # "returned"

\* C4 witness: two strategies returned two rows each
C4_Witness ==
    /\ pc = "returned"
    /\ Len(strategies) = 2
    /\ \A s \in Names : Len(results[s].index) = 2

\* the asset value recorded for asset i when the fee is due exactly if `due`
ValueWithFee(s, k, i, due) ==
    buffers[s].vals[k][i] =
        RSub(RInt(Trunc(trail[s][k].port[i])), IF due THEN Fee ELSE Zero)

\* C5 as stated: 1.75 is subtracted exactly from the assets to which the
\* policy assigned a strictly positive allocation.
C5_Original ==
    \A s \in DOMAIN buffers : \A k \in Recorded(s) :
        (WellFormed /\ FiniteOut(trail[s][k])) =>
            \A i \in Assets :
                ValueWithFee(s, k, i, RGt(trail[s][k].alloc[i], Zero))

\* C5 amended: 1.75 is subtracted, once and whatever the amount, exactly from
\* the assets whose recorded allocation (the policy's, truncated to a whole
\* number) is strictly positive, that is whose policy allocation is at least
\* 1; an asset with a policy allocation below 1, or NaN, pays no fee.
C5_FeeOnRecordedAllocation ==
    \A s \in DOMAIN buffers : \A k \in Recorded(s) : \A i \in Assets :
        LET due == RGt(buffers[s].allocs[k][i], Zero)
            fee == IF due THEN Fee ELSE Zero
        IN  /\ IF IsFinite(trail[s][k].port[i])
               THEN buffers[s].vals[k][i] = RSub(RInt(Trunc(trail[s][k].port[i])), fee)
               ELSE \E c \in NaNCastOutcomes : buffers[s].vals[k][i] = RSub(c, fee)
            /\ IF IsFinite(trail[s][k].alloc[i])
               THEN due <=> RGe(trail[s][k].alloc[i], RInt(1))
               ELSE buffers[s].allocs[k][i] \in NaNCastOutcomes

\* C5 witness: a policy allocation strictly between 0 and 1 that paid no fee,
\* in a run where another record paid one
C5_Witness ==
    /\ \E s \in DOMAIN buffers : \E k \in Recorded(s) : \E i \in Assets :
           /\ FiniteOut(trail[s][k])
           /\ RGt(trail[s][k].alloc[i], Zero)
           /\ RLt(trail[s][k].alloc[i], RInt(1))
           /\ buffers[s].vals[k][i] = RInt(Trunc(trail[s][k].port[i]))
    /\ \E s \in DOMAIN buffers : \E k \in Recorded(s) : \E i \in Assets :
           RGt(buffers[s].allocs[k][i], Zero)

\* C6: with a non-negative initial allocation of the right length, positive
\* prices and monthly_cash >= 0, every component of the state of an
\* EqualWeightStrategy is >= 0 after any number of periods.
C6_NonNegativeState ==
    \A s \in DOMAIN buffers :
        (strategies[s] = "EqualWeight" /\ WellFormed) =>
            \A i \in 1..Len(buffers[s].curr) : RGe(buffers[s].curr[i], Zero)

BuyOnlyKinds == {"EqualWeight", "ValueAveraging", "Momentum", "RiskParity"}

\* C7: for the buy-only policies every recorded allocation is >= 0 and the
\* recorded allocations of a period sum to at most monthly_cash.
C7_BuyOnly ==
    \A s \in DOMAIN buffers :
        (strategies[s] \in BuyOnlyKinds /\ WellFormed) =>
            \A k \in Recorded(s) :
                /\ \A i \in Assets : RGe(buffers[s].allocs[k][i], Zero)
                /\ RLe(VSum(buffers[s].allocs[k]), monthly_cash)

\* C9: an initial_allocation of the wrong length makes run() raise before the
\* first growth computation and before any policy invocation.
C9_MismatchRaisesFirst ==
    (Len(initial_allocation) # N /\ strategies # <<>>) =>
        /\ growth = <<>>
        /\ calls = <<>>
        /\ pc # "returned"

\* the buffers one more period can leave a strategy of class kind with, from
\* its own buffer b alone: period i, the t-th invocation of its policy
SoloOutcomes(kind, b, i, t) ==
    IF ~(InRange(b.curr) /\ Broadcastable(b.curr)) THEN {}
    ELSE LET outs == {o \in Optimize(kind, Age(b.curr, Growth(PriceHist(i))),
                                     monthly_cash, ReturnsHist(i), t) : o.ok}
         IN  UNION {{Store(b, Extract(o, c)) : c \in CastOutcomes(o)} : o \in outs}

\* the buffers a strategy of class kind can have after k periods of a run in
\* which it is the only strategy
RECURSIVE SoloBuffers(_, _)
SoloBuffers(kind, k) ==
    IF k = 0 THEN {NewBuffer(initial_allocation)}
    ELSE UNION {SoloOutcomes(kind, b, rolling_window + k - 1, k) :
                    b \in SoloBuffers(kind, k - 1)}

\* C11: strategy isolation. Whatever other strategies take part in the run,
\* before or after it in the mapping, the records and the state of a strategy
\* are at every moment records and state that the strategy has in a run of
\* its own on the same price table, initial_allocation, monthly_cash and
\* rolling_window: nothing of another strategy is read or written for it.
C11_StrategyIsolation ==
    \A s \in DOMAIN buffers :
        buffers[s] \in SoloBuffers(strategies[s], Len(buffers[s].vals))

\* C11 witness: two strategies returned two records each, and not the same
C11_Witness ==
    /\ pc = "returned"
    /\ Len(strategies) = 2
    /\ \A s \in Names : Len(results[s].asset_values) = 2
    /\ results[1].asset_values # results[2].asset_values

\* the return table has one row per price row but the first, under its date
OneReturnPerLaterRow ==
    /\ Len(Returns(prices)) = Len(prices) - 1
    /\ Dates(prices) = [k \in 1..(Len(prices) - 1) |-> k]

\* C12: return-series invariant. For every price table of at least one row,
\* with or without missing observations, the derived return table has
\* len(prices) - 1 rows and its dates are the price dates without the first.
C12_ReturnSeriesInvariant == Len(prices) >= 1 => OneReturnPerLaterRow

FiniteVec(v) == \A i \in 1..Len(v) : IsFinite(v[i])

\* every asset has zero variance in the returns history of period i
ZeroVariance(i) ==
    \A a \in Assets : Var(Col(ReturnsHist(i), a)) = Zero

\* the allocation of a policy that targets weights 1/N with value Vt
EqualWeightTarget(aged, new_capital) ==
    LET Vt == RAdd(VSum(aged), new_capital)
        allocation0 == VMax0(VSub(VFull(N, RDiv(Vt, RInt(N))), aged))
    IN  Rescale(allocation0, VSum(allocation0), new_capital)

\* C13: equal-weight fallback. Whenever RiskParityStrategy is handed a finite
\* aged portfolio, 'New Allocation', 'New Portfolio' and 'New Weights' hold no
\* NaN and no infinite value, whatever assets have zero volatility, and when
\* all of them have, the allocation is the one of target weights 1/N.
C13_EqualWeightFallback ==
    \A s \in DOMAIN buffers : \A k \in Recorded(s) :
        (strategies[s] = "RiskParity" /\ FiniteVec(trail[s][k].aged)) =>
            /\ FiniteVec(trail[s][k].alloc)
            /\ FiniteVec(trail[s][k].port)
            /\ FiniteVec(buffers[s].weights[k])
            /\ ZeroVariance(trail[s][k].idx) =>
                   trail[s][k].alloc = EqualWeightTarget(trail[s][k].aged, monthly_cash)

\* the reference scenario: prices [[100,50],[110,55],[121,50]], rolling_window
\* 1, monthly_cash 100, initial_allocation [0,0]
ReferenceScenario ==
    /\ prices = PriceTable(<<"refA", "refB">>, 3)
    /\ rolling_window = 1
    /\ monthly_cash = RInt(100)
    /\ initial_allocation = <<Zero, Zero>>

\* C14: reference scenario, first period. For an EqualWeightStrategy the
\* growth factors of the first period are [1.1, 1.1], they are applied to
\* [0, 0], the recorded allocation is [50, 50], the post-fee asset values are
\* [48.25, 48.25] and the total value is 96.5.
C14_ReferenceFirstPeriod ==
    ReferenceScenario =>
        /\ (pc = "strategies" /\ idx = 1) =>
               growth = <<[n |-> 11, d |-> 10], [n |-> 11, d |-> 10]>>
        /\ \A s \in DOMAIN buffers :
               (strategies[s] = "EqualWeight" /\ Len(buffers[s].vals) >= 1) =>
                   /\ trail[s][1].idx = 1
                   /\ trail[s][1].aged = <<Zero, Zero>>
                   /\ buffers[s].allocs[1] = <<RInt(50), RInt(50)>>
                   /\ buffers[s].vals[1] = <<[n |-> 193, d |-> 4], [n |-> 193, d |-> 4]>>
                   /\ buffers[s].total[1] = [n |-> 193, d |-> 2]

\* C14 witness: the first record of the scenario has been written
C14_Witness ==
    /\ ReferenceScenario
    /\ strategies = <<"EqualWeight">>
    /\ Len(buffers) = 1
    /\ Len(buffers[1].vals) >= 1

\* C15: reference scenario, second period. With its three price rows the
\* scenario yields two Period Records: run() returns two rows, the second of
\* a period whose growth factors [121/110, 50/55] are applied to the state
\* [48.25, 48.25] of the first.
C15_ReferenceSecondPeriod ==
    (ReferenceScenario /\ strategies = <<"EqualWeight">> /\ pc = "returned") =>
        /\ Len(results[1].total_values) = 2
        /\ trail[1][2].aged =
               <<RMul([n |-> 193, d |-> 4], [n |-> 11, d |-> 10]),
                 RMul([n |-> 193, d |-> 4], [n |-> 10, d |-> 11])>>

\* C16: in every Period Record of a run on a well-formed initial allocation
\* whose aged portfolio is finite, the recorded weights sum to 1, or to 0
\* when the new portfolio is worth nothing (fully uninvested).
C16_WeightsSumToOne ==
    \A s \in DOMAIN buffers : \A k \in Recorded(s) :
        (WellFormed /\ FiniteVec(trail[s][k].aged)) =>
            \/ VSum(buffers[s].weights[k]) = RInt(1)
            \/ /\ VSum(trail[s][k].port) = Zero
               /\ VSum(buffers[s].weights[k]) = Zero

StatelessKinds == {"EqualWeight", "Momentum", "RiskParity"}

\* no record of strategy s in this call came from a cast of NaN or Inf
FiniteRun(s) == \A k \in 1..Len(trail[s]) : FiniteOut(trail[s][k])

InTargetCurrency(data, fx) == DivRows(data, FFillSeries(Reindex(fx, data)))

\* some date of the table has a rate other than 1
RateNotPar(data, fx) ==
    \E r \in 1..Len(data) :
        LET rate == FFillSeries(Reindex(fx, data))[r]
        IN  IsFinite(rate) /\ rate # RInt(1)

\* C19: currency conversion. For a DataLoader of a currency other than USD
\* every price fetch_prices() returns is the downloaded USD price over the FX
\* rate of its date (forward-filled), and the table differs from the
\* unconverted one whenever some rate is not 1.
C19_CurrencyConversion ==
    (loader.pc # "constructed" /\ loader.pc # "unused" /\ loader.currency # "USD") =>
        /\ loader.out = FFill(InTargetCurrency(loader.data, loader.fx))
        /\ RateNotPar(loader.data, loader.fx) => loader.out # FFill(loader.data)

\* price[t] / price[t-1] for the price row at position t (numbered from 0)
GrowthOfRow(t) == [i \in Assets |-> RDiv(prices[t + 1][i], prices[t][i])]

\* the state of strategy s before its k-th record
StateBefore(s, k) == IF k = 1 THEN initial_allocation ELSE buffers[s].vals[k - 1]

\* in every period the growth is that of the period's price row over the row
\* before it, and the policy is handed the state times the growth
GrowthApplied ==
    /\ pc = "strategies" => growth = GrowthOfRow(idx)
    /\ \A s \in DOMAIN buffers : \A k \in Recorded(s) :
           WellFormed =>
               trail[s][k].aged =
                   VMul(StateBefore(s, k), GrowthOfRow(trail[s][k].idx))

\* C20: growth factor. For every rolling_window, 0 included, every period of
\* the loop computes its growth factors, as price[t] / price[t-1] of the
\* immediately preceding row, and the policy receives the state multiplied
\* element-wise by them.
C20_GrowthFactor ==
    /\ GrowthApplied
    /\ error # "IndexError"

(***************************************************************************)
(* The state vector between the periods (steps 2, 6 and 7).                *)
(***************************************************************************)
\* the vector a strategy's state must be: its latest recorded asset values,
\* the caller's initial allocation before the first record
HandedOver(s) ==
    IF Len(buffers[s].vals) = 0 THEN initial_allocation
    ELSE buffers[s].vals[Len(buffers[s].vals)]

\* C21: at every point of a run each strategy's state vector is exactly the
\* post-fee asset-value vector of its latest Period Record, and the caller's
\* initial allocation while it has no record; every aging step started from
\* that vector (the holdings handed to the policy at record k are the record
\* k-1 vector, or the initial allocation, times the period's growth factors);
\* and no step other than the strategy's own record changes its state
C21_StateHandOver ==
    [][ /\ \A s \in DOMAIN buffers :
             /\ StateOf(s) = HandedOver(s)
             /\ \A k \in 1..Len(trail[s]) :
                    trail[s][k].aged = Age(StateBefore(s, k), trail[s][k].growth)
        /\ \A s \in (DOMAIN buffers) \cap (DOMAIN buffers') :
             buffers'[s].curr # buffers[s].curr =>
                 /\ pc = "strategies" /\ sidx = s
                 /\ Len(buffers'[s].vals) = Len(buffers[s].vals) + 1
                 /\ buffers'[s].curr = buffers'[s].vals[Len(buffers'[s].vals)] ]_vars

\* a strategy after its second period: the second aging step started from
\* the first record, which differs from the initial allocation, and the state
\* is now the second record, which differs from the first
C21_Witness ==
    \E s \in DOMAIN buffers :
        /\ Len(buffers[s].vals) = 2
        /\ buffers[s].vals[1] # initial_allocation
        /\ trail[s][2].aged = Age(buffers[s].vals[1], trail[s][2].growth)
        /\ trail[s][2].aged # Age(initial_allocation, trail[s][2].growth)
        /\ StateOf(s) = buffers[s].vals[2]
        /\ StateOf(s) # buffers[s].vals[1]

(***************************************************************************)
(* The history window (steps 1 of the loop body).                          *)
(***************************************************************************)
\* min(t, rolling_window) + 1
WindowRows(t) == IF t < rolling_window THEN t + 1 ELSE rolling_window + 1

\* rows first .. first + k - 1 of a table, counted from 0
RowsFrom(table, first, k) == [j \in 1..k |-> table[first + j]]

\* C22: at every simulated period t the price slice and the returns slice
\* both start at row max(0, t - rolling_window) of their table, end at and
\* include row t, have exactly min(t, rolling_window) + 1 rows and never more
\* than rolling_window + 1; a policy that is called is handed that window
C22_HistoryWindow ==
    /\ pc = "strategies" =>
         LET first == IF idx - rolling_window > 0 THEN idx - rolling_window ELSE 0
         IN  /\ hist_start = first
             /\ PriceHist(idx) = RowsFrom(prices, first, WindowRows(idx))
             /\ ReturnsHist(idx) = RowsFrom(Returns(prices), first, WindowRows(idx))
             /\ first + WindowRows(idx) = idx + 1
             /\ Len(PriceHist(idx)) <= rolling_window + 1
             /\ Len(ReturnsHist(idx)) <= rolling_window + 1
    /\ last_call.name # 0 =>
         /\ Cardinality(last_call.price_dates) = WindowRows(last_call.idx)
         /\ Cardinality(last_call.returns_dates) = WindowRows(last_call.idx)

\* a period later than the warm-up: the window no longer starts at row 0,
\* has rolling_window + 1 rows and was handed to a policy
C22_Witness ==
    /\ pc = "strategies"
    /\ idx > rolling_window
    /\ hist_start = idx - rolling_window
    /\ Len(PriceHist(idx)) = rolling_window + 1
    /\ Len(ReturnsHist(idx)) = rolling_window + 1
    /\ last_call.name # 0 /\ last_call.idx = idx

(***************************************************************************)
(* The order of the two loops (time outside, strategies inside).           *)
(***************************************************************************)
\* call j was made before call k: an earlier period, or the same period and
\* an earlier name of the mapping
CallOrder(j, k) ==
    \/ calls[j][2] < calls[k][2]
    \/ calls[j][2] = calls[k][2] /\ calls[j][1] < calls[k][1]

\* the periods a strategy has on record are start, start + 1, ... in order
RecordedInOrder(s) ==
    /\ Len(trail[s]) = Len(buffers[s].vals)
    /\ \A k \in 1..Len(trail[s]) : trail[s][k].idx = start + k - 1

\* C23: the policy invocations come in strictly increasing period order and,
\* within a period, in the order of the mapping; when the loop is at period
\* idx every strategy has its records of all the periods before idx (and its
\* state is the latest of them), those served already in this period have the
\* record of idx too, so no policy is invoked for a period before every
\* strategy's record of the period before is appended; and the records of
\* one period were all made from the same window start, the same growth
\* factors and the same new_capital
C23_PeriodBarrier ==
    /\ \A j, k \in 1..Len(calls) : j < k => CallOrder(j, k)
    /\ pc \in {"loop", "strategies", "returned"} =>
         \A a \in Names :
             /\ RecordedInOrder(a)
             /\ Len(buffers[a].vals) =
                    IF pc = "strategies" /\ a < sidx THEN idx - start + 1
                    ELSE idx - start
             /\ StateOf(a) = HandedOver(a)
    /\ \A a, b \in DOMAIN trail :
         \A j \in 1..Len(trail[a]) : \A k \in 1..Len(trail[b]) :
             trail[a][j].idx = trail[b][k].idx =>
                 /\ trail[a][j].hist_start = trail[b][k].hist_start
                 /\ trail[a][j].growth = trail[b][k].growth
                 /\ trail[a][j].new_capital = trail[b][k].new_capital

\* two strategies, the first of them called for its second period after the
\* second one's first record; both first records were made from the same
\* growth factors, which differ from those of the second period
C23_Witness ==
    /\ Len(strategies) = 2
    /\ Len(calls) = 3
    /\ calls[3][1] = 1 /\ calls[2][1] = 2
    /\ calls[3][2] = calls[2][2] + 1
    /\ Len(trail[1]) = 2 /\ Len(trail[2]) = 1
    /\ trail[1][1].growth = trail[2][1].growth
    /\ trail[1][2].growth # trail[1][1].growth

(***************************************************************************)
(* The four lists of a strategy's buffer (steps 6 and 8).                  *)
(***************************************************************************)
Lists == {"vals", "allocs", "weights", "total"}

\* list new is list old with exactly one entry appended
GrownByOne(old, new) ==
    /\ Len(new) = Len(old) + 1
    /\ \A k \in 1..Len(old) : new[k] = old[k]

\* C24: within a run the four lists of every strategy only grow: a step
\* either leaves all four as they are or appends exactly one entry to each
\* of them, which happens in the strategy's own turn of a period, and the
\* entries already there keep their value and position; after k simulated
\* periods each list has exactly k entries, and the result tables are the
\* lists as they stand
C24_AppendOnly ==
    [][ /\ \A s \in (DOMAIN buffers) \cap (DOMAIN buffers') :
             \/ \A f \in Lists : buffers'[s][f] = buffers[s][f]
             \/ /\ pc = "strategies" /\ sidx = s
                /\ \A f \in Lists : GrownByOne(buffers[s][f], buffers'[s][f])
        /\ \A s \in DOMAIN buffers :
             /\ \A f \in Lists :
                    Len(buffers[s][f]) =
                        IF pc = "raised" THEN Len(buffers[s].vals)
                        ELSE IF pc = "strategies" /\ s < sidx THEN idx - start + 1
                        ELSE idx - start
             /\ pc = "returned" =>
                    /\ results[s].asset_values = buffers[s].vals
                    /\ results[s].allocations = buffers[s].allocs
                    /\ results[s].weights = buffers[s].weights
                    /\ results[s].total_values = buffers[s].total ]_vars

\* a returned run of two periods whose two records differ
C24_Witness ==
    /\ pc = "returned"
    /\ \E s \in DOMAIN buffers :
           /\ \A f \in Lists : Len(buffers[s][f]) = 2
           /\ buffers[s].vals[1] # buffers[s].vals[2]
           /\ buffers[s].total[1] # buffers[s].total[2]
           /\ results[s].asset_values = buffers[s].vals

(***************************************************************************)
(* Whole units (step 5 of the loop body).                                  *)
(***************************************************************************)
IsWhole(x) == IsFinite(x) /\ x.d = 1

\* record k of strategy s holds, for asset i, the policy's allocation
\* truncated toward zero and the policy's portfolio value truncated toward
\* zero less the fee of a positive truncated allocation
RoundedRecord(s, k, i) ==
    LET a == trail[s][k].alloc[i]
        p == trail[s][k].port[i]
    IN  /\ IsFinite(a) /\ IsFinite(p)
        /\ IsWhole(buffers[s].allocs[k][i])
        /\ buffers[s].allocs[k][i] = RInt(Trunc(a))
        /\ buffers[s].vals[k][i] =
               RSub(RInt(Trunc(p)), IF Trunc(a) > 0 THEN Fee ELSE Zero)
        /\ \/ IsWhole(buffers[s].vals[k][i])
           \/ IsWhole(RAdd(buffers[s].vals[k][i], Fee))

\* C25: in every Period Record the recorded allocation of each asset is the
\* whole number obtained by truncating the policy's 'New Allocation' toward
\* zero, and the recorded asset value is the policy's 'New Portfolio'
\* truncated toward zero minus 1.75 if the truncated allocation is positive
\* and minus 0 otherwise, hence a whole number or a whole number minus 1.75
C25_WholeUnitRounding ==
    \A s \in DOMAIN buffers : \A k \in Recorded(s) : \A i \in Assets :
        RoundedRecord(s, k, i)

(***************************************************************************)
(* Dates of the window and of the result rows.                             *)
(***************************************************************************)
\* the date of the last row of the price window of period t: the price rows
\* are dated 0, 1, ... in table order
LastPriceDate(t) == t

\* the last row of the returns window of period t
LastReturn(t) == ReturnsHist(t)[Len(ReturnsHist(t))]

\* C26: at every simulated period the last row of the price history and the
\* last row of the returns history carry the same date, and that last return
\* row is the return between the two prices the period's growth factor is
\* the ratio of (it is not computed from a later price)
C26_HistoryAlignment ==
    pc = "strategies" =>
        /\ LastReturn(idx).date = LastPriceDate(idx)
        /\ \A i \in Assets :
               IsFinite(growth[i]) =>
                   LastReturn(idx).row[i] = RSub(growth[i], RInt(1))

\* the periods whose growth numerator is price row r (rows counted from 0)
NumeratorOf(s, r) == {k \in 1..Len(trail[s]) : trail[s][k].idx = r}

\* C27: the result row labelled with date D is the record of the period
\* whose growth factor is price[D] / price[the date before D], and every
\* price row after the warm-up is the growth numerator of exactly one period
C27_DateLabelling ==
    pc = "returned" =>
        \A s \in Names :
            /\ \A k \in 1..Len(results[s].index) :
                   LET D == results[s].index[k]
                   IN  /\ k <= Len(trail[s])
                       /\ trail[s][k].idx = D
                       /\ D >= 1 /\ D < Len(prices)
                       /\ trail[s][k].growth = GrowthOfRow(D)
            /\ \A r \in rolling_window..(Len(prices) - 1) :
                   r >= 1 => Cardinality(NumeratorOf(s, r)) = 1

(***************************************************************************)
(* The cash of a period (step 4 of the loop body).                         *)
(***************************************************************************)
\* what record k of strategy s left of the capital it was handed
UnusedOf(s, k) == RSub(trail[s][k].new_capital, VSum(trail[s][k].alloc))

\* C28: every policy invocation receives exactly monthly_cash as new_capital,
\* whatever earlier periods left unused; the portfolio a record is made from
\* is the aged holdings plus the allocation and nothing else (for the
\* policies that do not round it), no recorded asset value exceeds it, and
\* the next aging step starts from the recorded values alone, so unused cash
\* enters neither a later new_capital nor a recorded value or total
C28_ConstantCashInjection ==
    /\ last_call.name # 0 => last_call.new_capital = monthly_cash
    /\ \A s \in DOMAIN buffers : \A k \in Recorded(s) :
         /\ trail[s][k].new_capital = monthly_cash
         /\ FiniteOut(trail[s][k]) =>
              /\ strategies[s] # "MVO" =>
                     trail[s][k].port = VAdd(trail[s][k].aged, trail[s][k].alloc)
              /\ \A i \in Assets : RLe(buffers[s].vals[k][i], trail[s][k].port[i])
              /\ buffers[s].total[k] = VSum(buffers[s].vals[k])
         /\ k > 1 =>
              trail[s][k].aged = Age(buffers[s].vals[k - 1], trail[s][k].growth)

\* a strategy that left part of a positive cash injection unused in its
\* first period and was called again in the second
C28_Witness ==
    \E s \in DOMAIN buffers :
        /\ Len(buffers[s].vals) = 2
        /\ FiniteOut(trail[s][1]) /\ FiniteOut(trail[s][2])
        /\ RGt(monthly_cash, Zero)
        /\ RGt(UnusedOf(s, 1), Zero)
        /\ trail[s][2].new_capital = monthly_cash

(***************************************************************************)
(* The policies that target weights (MomentumStrategy,                     *)
(* TrendFollowingStrategy, ValueOpportunityStrategy), called once, directly*)
(* and outside a backtest, on a portfolio, a cash amount and the price     *)
(* table whose returns they are handed.  The outcome adds to the columns   *)
(* of Returned the target weights and the 'Unused' column.                 *)
(***************************************************************************)
WeightTargetingKinds == {"Momentum", "TrendFollowing", "ValueOpportunity"}

\* TrendFollowingStrategy defaults
LongWindow == 10
ShortWindow == 3

\* ValueOpportunityStrategy defaults
LookbackLong == 12
LookbackShort == 1
TopK == [n |-> 1, d |-> 2]

WithTarget(out, target, unused) ==
    [ok |-> out.ok, alloc |-> out.alloc, port |-> out.port, wts |-> out.wts,
     target |-> target, unused |-> unused]

\* 'Unused': new_capital - allocation.sum(), the scalar in every row
UnusedCash(allocation, new_capital) ==
    VFull(Len(allocation), RSub(new_capital, VSum(allocation)))

\* MomentumStrategy.optimize() with its 'Unused' column; the weights it
\* returns are its target weights
MomentumColumns(current_portfolio, new_capital, returns_history) ==
    {WithTarget(o, o.wts, UnusedCash(o.alloc, new_capital)) :
        o \in MomentumOptimize(current_portfolio, new_capital, returns_history)}

\* prices.rolling(window = w, min_periods = 1).mean().iloc[-1] of one column:
\* the mean of the observations among the last w rows
RollingMeanLast(price_history, w, i) ==
    LET win == LastRows(price_history, w)
        obs == SelectSeq([k \in 1..Len(win) |-> win[k][i]], LAMBDA x : x # NaN)
    IN  IF Len(obs) = 0 THEN NaN ELSE Mean(obs)

TrendFollowingOptimize(current_portfolio, new_capital, price_history) ==
    LET V0 == VSum(current_portfolio)
        Vt == RAdd(V0, new_capital)
        n_assets == N
        signal == {i \in Assets :
                      RGt(RollingMeanLast(price_history, ShortWindow, i),
                          RollingMeanLast(price_history, LongWindow, i))}
        weights == IF signal = {} THEN VFull(n_assets, Zero)
                   ELSE [i \in Assets |->
                            IF i \in signal
                            THEN RDiv(RInt(1), RInt(Cardinality(signal)))
                            ELSE Zero]
        target_portfolio == VScale(weights, Vt)
        allocation0 == VMax0(VSub(target_portfolio, current_portfolio))
        allocation ==
            IF RGt(VSum(allocation0), Zero)
            THEN Rescale(allocation0, VSum(allocation0), new_capital)
            ELSE allocation0
        new_portfolio == VAdd(current_portfolio, allocation)
        new_weights == WeightsOf(new_portfolio, VSum(new_portfolio))
    IN  {WithTarget(Returned(allocation, new_portfolio, new_weights), weights,
                    UnusedCash(allocation, new_capital))}

\* R_long.sort_values(ascending = False).iloc[:k]: the k largest, the earlier
\* ticker first among equals
TopQuality(R_long, k) ==
    {i \in Assets :
        Cardinality({j \in Assets :
                        \/ RGt(R_long[j], R_long[i])
                        \/ R_long[j] = R_long[i] /\ j < i}) < k}

ValueOpportunityOptimize(current_portfolio, new_capital, returns_history) ==
    LET V0 == VSum(current_portfolio)
        Vt == RAdd(V0, new_capital)
        R_long == [i \in Assets |->
                      Mean(Col(LastRows(returns_history, LookbackLong), i))]
        R_short == [i \in Assets |->
                       Mean(Col(LastRows(returns_history, LookbackShort), i))]
        k == Trunc(RMul(RInt(N), TopK))
        top_quality == TopQuality(R_long, k)
        combined_score ==
            [i \in Assets |->
                IF i \in top_quality
                THEN RMax(RMul(R_long[i], RNeg(R_short[i])), Zero)
                ELSE Zero]
        weights == IF VSumSkipNa(combined_score) = Zero
                   THEN VFull(N, RDiv(RInt(1), RInt(N)))
                   ELSE VDivBy(combined_score, VSumSkipNa(combined_score))
        target_portfolio == VScale(weights, Vt)
        allocation0 == VMax0(VSub(target_portfolio, current_portfolio))
        allocation == Rescale(allocation0, VSum(allocation0), new_capital)
        new_portfolio == VAdd(current_portfolio, allocation)
        \* 'Unused': np.minimum(0, target_portfolio - current_portfolio)
        unused == [i \in Assets |->
                      RMin(Zero, RSub(target_portfolio[i], current_portfolio[i]))]
    IN  {WithTarget(Returned(allocation, new_portfolio,
                             VDivBy(new_portfolio, VSum(new_portfolio))),
                    weights, unused)}

WeightTargetOptimize(kind, current_portfolio, new_capital, price_history) ==
    CASE kind = "Momentum" ->
             MomentumColumns(current_portfolio, new_capital, Returns(price_history))
      [] kind = "TrendFollowing" ->
             TrendFollowingOptimize(current_portfolio, new_capital, price_history)
      [] kind = "ValueOpportunity" ->
             ValueOpportunityOptimize(current_portfolio, new_capital,
                                      Returns(price_history))

\* the portfolios a policy is called on: empty, mixed, one-sided, overdrawn
ProbePortfolios ==
    { <<Zero, Zero>>, <<RInt(10), RInt(3)>>, <<RInt(3), RInt(10)>>,
      <<RInt(100), Zero>>, <<RInt(-5), RInt(10)>> }

\* price tables with at least one return row
ProbeTables == {p \in PriceTables : Len(Returns(p)) >= 1}

InitPolicy ==
    /\ probe \in {[pc |-> "ready", kind |-> k, current_portfolio |-> c,
                   new_capital |-> RInt(m), price_history |-> p, out |-> Raised] :
                     k \in WeightTargetingKinds, c \in ProbePortfolios,
                     m \in CashValues, p \in ProbeTables}
    /\ loader = NoLoader
    /\ strategies = <<>>
    /\ instances = <<>>
    /\ prices = <<>>
    /\ initial_allocation = <<>>
    /\ monthly_cash = Zero
    /\ rolling_window = 0
    /\ policy_t = <<>>
    /\ pc = "constructed"
    /\ buffers = <<>>
    /\ idx = 0
    /\ sidx = 0
    /\ hist_start = 0
    /\ growth = <<>>
    /\ results = <<>>
    /\ error = "none"
    /\ calls = <<>>
    /\ last_call = NoCall
    /\ trail = <<>>
    /\ runs = 0
    /\ prior = <<>>

\* strategy.optimize(current_portfolio, new_capital, price_history, returns_history)
ProbeOptimize ==
    /\ probe.pc = "ready"
    /\ \E out \in WeightTargetOptimize(probe.kind, probe.current_portfolio,
                                       probe.new_capital, probe.price_history) :
           probe' = [probe EXCEPT !.pc = "returned", !.out = out]
    /\ UNCHANGED <<strategies, prices, initial_allocation, monthly_cash,
                   rolling_window, caller, policy_t, pc, buffers, idx, sidx,
                   hist_start, growth, results, error, calls, last_call, trail,
                   instances, loader>>

NextPolicy == ProbeOptimize

SpecPolicy == InitPolicy /\ [][NextPolicy]_vars

\* C29: for the buy-only weight-targeting policies, whenever the target
\* weights sum to 1 and no component of current_portfolio is negative, the
\* returned 'New Allocation' sums to exactly new_capital, 'Unused' is 0 and
\* each 'New Portfolio' component is at least the current component
C29_FullDeployment ==
    probe.pc = "returned" =>
        LET o == probe.out
        IN  ( /\ o.ok
              /\ VSum(o.target) = RInt(1)
              /\ \A i \in Assets : RGe(probe.current_portfolio[i], Zero) ) =>
                /\ VSum(o.alloc) = probe.new_capital
                /\ \A i \in Assets : o.unused[i] = Zero
                /\ \A i \in Assets : RGe(o.port[i], probe.current_portfolio[i])

(***************************************************************************)
(* The counter of a ValueAveragingStrategy object over its whole life.     *)
(***************************************************************************)
\* the names of the mapping that are served by the object behind name s
Sharers(s) == {a \in Names : instances[a] = instances[s]}

\* optimize() calls of this run on the object behind s, up to and including
\* the call of name s in period i
CallsUpTo(s, i) ==
    Cardinality({j \in 1..Len(calls) :
                    /\ calls[j][1] \in Sharers(s)
                    /\ \/ calls[j][2] < i
                       \/ calls[j][2] = i /\ calls[j][1] <= s})

\* optimize() calls on the object behind s in the runs that returned before
CallsBefore(s) == runs * Periods * Cardinality(Sharers(s))

\* min(new_capital, max(0, new_capital * k * (1 + target_growth_rate) - V0))
InvestmentOf(k, new_capital, current_portfolio) ==
    RMin(new_capital,
         RMax(Zero,
              RSub(RMul(RMul(new_capital, RInt(k)), [n |-> 51, d |-> 50]),
                   VSum(current_portfolio))))

=============================================================================
